---- MODULE Spec2Model ----
(***************************************************************************)
(* Model of the retrieval service of the backend                           *)
(* (backend/app/services/rag_service.py): per-user collections of chunks   *)
(* in the vector store, and the operations add_document, query,            *)
(* delete_document, get_document_count and reset_collection.               *)
(*                                                                         *)
(* A text is a sequence of one-character strings.  The coroutines of the   *)
(* service run on one event loop: the code between two awaits is one       *)
(* atomic step, and the only awaits that suspend are the two calls of the  *)
(* embedding provider (rag_service.py:119 via :155, and :185).             *)
(*                                                                         *)
(* documents is the collection db.documents of the uploaded documents      *)
(* (backend/app/api/documents.py), and encoding_ok says whether tiktoken   *)
(* can load the encoding _count_tokens asks for; the service cannot        *)
(* change it.                                                              *)
(***************************************************************************)
EXTENDS Integers, Sequences, FiniteSets, Bags, TLC

VARIABLES collections, tasks, ret, calls, documents, files, encoding_ok,
          sessions, users

vars == <<collections, tasks, ret, calls, documents, files, encoding_ok,
          sessions, users>>

----------------------------------------------------------------------------
(* Bounds of the model *)

\* number of calls made in one run of the service
MaxCalls == 2

----------------------------------------------------------------------------
(* Characters and texts *)

LF == "\n"
SP == " "

Whitespace == {SP, LF}

None == "None"

Min(a, b) == IF a <= b THEN a ELSE b

RECURSIVE Rep(_, _)
\* the text made of n copies of the character ch
Rep(ch, n) == IF n = 0 THEN <<>> ELSE <<ch>> \o Rep(ch, n - 1)

RECURSIVE Concat(_)
\* "".join(seqs)
Concat(seqs) == IF seqs = <<>> THEN <<>> ELSE Head(seqs) \o Concat(Tail(seqs))

RECURSIVE LStrip(_)
LStrip(t) == IF t # <<>> /\ Head(t) \in Whitespace THEN LStrip(Tail(t)) ELSE t

RECURSIVE RStrip(_)
RStrip(t) ==
    IF t # <<>> /\ t[Len(t)] \in Whitespace THEN RStrip(SubSeq(t, 1, Len(t) - 1)) ELSE t

\* str.strip()
Strip(t) == RStrip(LStrip(t))

----------------------------------------------------------------------------
(* The text splitter: RecursiveCharacterTextSplitter(chunk_size=1000,      *)
(* chunk_overlap=200, length_function=_count_tokens, separators=["\n\n",   *)
(* "\n", ". ", " ", ""]), with the library's defaults keep_separator=True  *)
(* and strip_whitespace=True.                                              *)

ChunkSize == 1000

ChunkOverlap == 200

Separators == << <<LF, LF>>, <<LF>>, <<".", SP>>, <<SP>>, <<>> >>

\* Texts are measured in units: a letter of a model text stands for a word,
\* a run of CharsPerUnit characters without a separator that the tokenizer
\* counts as TokensPerUnit tokens; a whitespace character or a full stop
\* stands for itself and counts as one token.
TokensPerUnit == ChunkOverlap \div 2

\* four characters a token, the ratio the fallback of _count_tokens assumes
CharsPerUnit == 4 * TokensPerUnit

SeparatorChars == {SP, LF, "."}

\* the letters of text
Words(text) == Cardinality({i \in 1..Len(text) : text[i] \notin SeparatorChars})

\* len(text) of the text a model text stands for
Chars(text) == Words(text) * CharsPerUnit + (Len(text) - Words(text))

\* _count_tokens: len(encoding.encode(text)), or len(text) // 4 when
\* tiktoken raises (the encoding cannot be loaded)
CountTokens(text) ==
    IF encoding_ok
    THEN Words(text) * TokensPerUnit + (Len(text) - Words(text))
    ELSE Chars(text) \div 4

\* the first index at which sep occurs in text, 0 when it does not occur
FindSep(text, sep) ==
    LET n == Len(sep)
        at == {i \in 1..(Len(text) - n + 1) : SubSeq(text, i, i + n - 1) = sep}
    IN IF at = {} THEN 0 ELSE CHOOSE i \in at : \A j \in at : i <= j

RECURSIVE Pieces(_, _)
\* re.split(sep, text) for a non-empty literal sep: the texts between the
\* occurrences of sep, leftmost first, empty pieces included
Pieces(text, sep) ==
    LET i == FindSep(text, sep)
    IN IF i = 0 THEN <<text>>
       ELSE <<SubSeq(text, 1, i - 1)>> \o Pieces(SubSeq(text, i + Len(sep), Len(text)), sep)

\* _split_text_with_regex that leaves out the text before the first
\* separator
SplitTextWithRegexWithoutFirst(text, sep) ==
    LET raw == IF sep = <<>>
               THEN [i \in 1..Len(text) |-> <<text[i]>>]
               ELSE LET p == Pieces(text, sep)
                    IN [i \in 1..(Len(p) - 1) |-> sep \o p[i + 1]]
    IN SelectSeq(raw, LAMBDA s : s # <<>>)

\* _split_text_with_regex(text, separator, keep_separator=True): each
\* separator stays at the start of the piece that follows it; the empty
\* separator splits into characters; empty splits are dropped
SplitTextWithRegex(text, sep) ==
    LET raw == IF sep = <<>>
               THEN [i \in 1..Len(text) |-> <<text[i]>>]
               ELSE LET p == Pieces(text, sep)
                    IN [i \in 1..Len(p) |-> IF i = 1 THEN p[1] ELSE sep \o p[i]]
    IN SelectSeq(raw, LAMBDA s : s # <<>>)

\* _join_docs without the strip of the joined text
JoinDocsUnstripped(docs) ==
    LET text == Concat(docs) IN IF text = <<>> THEN <<>> ELSE <<text>>

\* _join_docs(docs, separator) for the separator "" that keep_separator=True
\* passes: the joined text stripped of whitespace; the result is the list of
\* the docs to append: none when nothing is left (the code's None), else one
JoinDocs(docs) ==
    LET text == Strip(Concat(docs)) IN IF text = <<>> THEN <<>> ELSE <<text>>

RECURSIVE PopWhile(_, _, _)
\* the while loop of _merge_splits (separator ""): drop splits from the front
\* of current_doc while it is larger than the overlap, or while it is
\* non-empty and adding a split of length len would exceed the chunk size
PopWhile(current_doc, total, len) ==
    IF total > ChunkOverlap \/ (total + len > ChunkSize /\ total > 0)
    THEN PopWhile(Tail(current_doc), total - CountTokens(Head(current_doc)), len)
    ELSE [current_doc |-> current_doc, total |-> total]

RECURSIVE MergeLoop(_, _, _, _, _)
MergeLoop(splits, i, docs, current_doc, total) ==
    IF i > Len(splits)
    THEN docs \o JoinDocs(current_doc)
    ELSE LET d == splits[i]
             len == CountTokens(d)
         IN IF total + len > ChunkSize /\ Len(current_doc) > 0
            THEN LET kept == PopWhile(current_doc, total, len)
                 IN MergeLoop(splits, i + 1, docs \o JoinDocs(current_doc),
                              Append(kept.current_doc, d), kept.total + len)
            ELSE MergeLoop(splits, i + 1, docs, Append(current_doc, d), total + len)

\* _merge_splits(splits, separator="")
MergeSplits(splits) == MergeLoop(splits, 1, <<>>, <<>>, 0)

\* the separator _split_text picks: the first of the list that is "" or
\* occurs in the text; [at |-> its index]
PickSeparator(text, separators) ==
    LET hit == {i \in 1..Len(separators) :
                   separators[i] = <<>> \/ FindSep(text, separators[i]) # 0}
    IN IF hit = {} THEN [separator |-> separators[Len(separators)], rest |-> <<>>]
       ELSE LET i == CHOOSE i \in hit : \A j \in hit : i <= j
            IN [separator |-> separators[i],
                rest |-> IF separators[i] = <<>> THEN <<>>
                         ELSE SubSeq(separators, i + 1, Len(separators))]

RECURSIVE SplitTextRec(_, _)
RECURSIVE SplitLoop(_, _, _, _, _)

\* the loop of _split_text over the splits: splits shorter than the chunk
\* size are collected and merged, a longer one is split with the remaining
\* separators, or kept whole when none remains
SplitLoop(splits, i, rest, final_chunks, good_splits) ==
    IF i > Len(splits)
    THEN IF good_splits # <<>> THEN final_chunks \o MergeSplits(good_splits)
         ELSE final_chunks
    ELSE LET s == splits[i] IN
         IF CountTokens(s) < ChunkSize
         THEN SplitLoop(splits, i + 1, rest, final_chunks, Append(good_splits, s))
         ELSE LET merged == IF good_splits # <<>>
                            THEN final_chunks \o MergeSplits(good_splits)
                            ELSE final_chunks
                  other == IF rest = <<>> THEN <<s>> ELSE SplitTextRec(s, rest)
              IN SplitLoop(splits, i + 1, rest, merged \o other, <<>>)

\* RecursiveCharacterTextSplitter._split_text(text, separators)
SplitTextRec(text, separators) ==
    LET pick == PickSeparator(text, separators)
    IN SplitLoop(SplitTextWithRegex(text, pick.separator), 1, pick.rest, <<>>, <<>>)

\* self.text_splitter.split_text(text)
SplitText(text) == SplitTextRec(text, Separators)

----------------------------------------------------------------------------
(* Inputs of the calls *)

UserA == <<"a", "-", "b">>
UserB == <<"a", "_", "b">>
UserC == <<"c">>

UserIds == {UserA, UserB, UserC}

DocIds == {"d1", "d2"}

TextEmpty == <<>>
TextBlank == <<SP, LF>>
TextShort == <<"x", SP, "y">>
TextLong == Rep("a", 6) \o <<LF, LF>> \o Rep("b", 6)

Texts == {TextEmpty, TextBlank, TextShort, TextLong}

\* a dict without keys; an optional dict argument that is None is modelled
\* by it (add_document reads its argument as "metadata or {}", and the store
\* takes where=None as no filter)
EmptyDict == [k \in {} |-> None]

\* the metadata argument of add_document: a dict of the caller, here one
\* that also holds keys the service sets itself
Metadatas == {[filename |-> "f.txt", user_id |-> UserC, chunk_index |-> 7]}

QueryTexts == {<<"x">>}

\* the filter_metadata argument of query: None, or a where-clause on one key
Filters == {EmptyDict} \cup {[document_id |-> d] : d \in {"d1"}}

TopKs == {1, 2}

----------------------------------------------------------------------------
(* The embedding provider: a deterministic map from a text to its vector   *)
(* (one coordinate), and the store's squared L2 distance.                  *)

\* aembed_documents / aembed_query, for one text
Embed(text) == Len(text)

Distance(e1, e2) == (e1 - e2) * (e1 - e2)

----------------------------------------------------------------------------
(* The vector store (chromadb.PersistentClient): collections by name, each *)
(* with its metadata and its records by id.                                *)

EmptyItems == [id \in {} |-> None]

Range(f) == {f[x] : x \in DOMAIN f}

\* dict merge {**a, **b}: the keys of b win
Merge(a, b) ==
    [k \in DOMAIN a \cup DOMAIN b |-> IF k \in DOMAIN b THEN b[k] ELSE a[k]]

\* str.replace(old, new) for one-character old and new
Replace(s, old, new) == [i \in 1..Len(s) |-> IF s[i] = old THEN new ELSE s[i]]

\* f"user_{user_id.replace('-', '_')}"
CollectionName(user_id) == <<"u", "s", "e", "r", "_">> \o Replace(user_id, "-", "_")

\* client.get_or_create_collection(name, metadata={"user_id": user_id}) as
\* _get_or_create_collection calls it: an existing collection of that name is
\* returned, else an empty one is created.  (The metadata of the collection
\* itself is read by no operation of the service and is not kept.)
GetOrCreateCollection(colls, user_id) ==
    LET name == CollectionName(user_id)
    IN IF name \in DOMAIN colls THEN colls
       ELSE [n \in DOMAIN colls \cup {name} |->
               IF n = name THEN [items |-> EmptyItems] ELSE colls[n]]

\* collection.add(ids, embeddings, documents=docs, metadatas): a record whose id
\* is already in the collection is ignored, the others are inserted
CollectionAdd(items, ids, embeddings, docs, metadatas) ==
    [id \in DOMAIN items \cup Range(ids) |->
        IF id \in DOMAIN items THEN items[id]
        ELSE LET i == CHOOSE i \in DOMAIN ids : ids[i] = id
             IN [document |-> docs[i], embedding |-> embeddings[i],
                 metadata |-> metadatas[i]]]

\* whether a record's metadata matches a where-clause (None matches all)
Matches(metadata, where) ==
    \A k \in DOMAIN where : k \in DOMAIN metadata /\ metadata[k] = where[k]

\* collection.get(where=...)['ids']
CollectionGetIds(items, where) == {id \in DOMAIN items : Matches(items[id].metadata, where)}

\* a delete that empties the collection when there is an id to delete
CollectionDeleteAll(items, ids) == IF ids = {} THEN items ELSE EmptyItems

\* a delete that removes one of the ids only
CollectionDeleteOne(items, ids) ==
    IF ids = {} THEN items
    ELSE LET first == CHOOSE id \in ids : TRUE
         IN [id \in DOMAIN items \ {first} |-> items[id]]

\* collection.delete(ids=...)
CollectionDelete(items, ids) == [id \in DOMAIN items \ ids |-> items[id]]

\* a query that returns every matching record, whatever n_results
NResultsAll(n_results, matching) == Cardinality(matching)

\* the number of results of collection.query: n_results, capped by the
\* number of records that match
NResults(n_results, matching) == Min(n_results, Cardinality(matching))

\* collection.query(query_embeddings=[e], n_results, where): the sequences of
\* ids the store may return: the nearest matching records, nearest first
\* (records at equal distance in either order)
CollectionQuery(items, e, n_results, where) ==
    LET matching == CollectionGetIds(items, where)
        n == NResults(n_results, matching)
        dist(id) == Distance(e, items[id].embedding)
    IN {ids \in [1..n -> matching] :
          /\ \A i, j \in 1..n : i # j => ids[i] # ids[j]
          /\ \A i, j \in 1..n : i < j => dist(ids[i]) <= dist(ids[j])
          /\ \A id \in matching \ Range(ids) : \A i \in 1..n : dist(ids[i]) <= dist(id)}

----------------------------------------------------------------------------
(* State.                                                                  *)
(*   collections  the store: name -> [items], items: id ->                 *)
(*                [document, embedding, metadata]                          *)
(*   tasks        the bag of the calls suspended at the await of the       *)
(*                embedding provider, each with its local variables.       *)
(*                "collection" is the handle the call obtained             *)
(*                before the await; "stale" says that the collection it    *)
(*                refers to was deleted since (a collection created later  *)
(*                under the same name is another collection)               *)
(*   ret          the outcome of the call that finished last: status       *)
(*                "returned" with its value, "raised" with the error, or   *)
(*                "cancelled"                                              *)
(*   calls        the number of calls made so far                          *)

NoCall == [op |-> "none", status |-> "none"]

Returned(call, value) ==
    [op |-> call.op, call |-> call, status |-> "returned", value |-> value]

Raised(call, error) ==
    [op |-> call.op, call |-> call, status |-> "raised", value |-> error]

\* the bag of tasks with one more, and with one less, copy of task
Suspend(task) == tasks (+) SetToBag({task})

Resume(task) == tasks (-) SetToBag({task})

----------------------------------------------------------------------------
(* add_document: the records it writes *)

\* chunk_ids: f"{document_id}_chunk_{i}"
ChunkId(document_id, i) == document_id \o "_chunk_" \o ToString(i)

\* chunk_metadata = metadata or {}; chunk_metadata["document_id"] = ...;
\* chunk_metadata["user_id"] = ...; then {**chunk_metadata, "chunk_index": i}
\* (chunk_index counts from 0)
ChunkMetadata(metadata, user_id, document_id, i) ==
    Merge(Merge(metadata, [document_id |-> document_id, user_id |-> user_id]),
          [chunk_index |-> i])

\* an add_document that numbers its chunk ids on from the size of the
\* collection instead of from 0
IndexChunksNumberedOn(items, user_id, document_id, metadata, chunks) ==
    LET base == Cardinality(DOMAIN items)
    IN CollectionAdd(items,
        [i \in 1..Len(chunks) |-> ChunkId(document_id, base + i - 1)],
        [i \in 1..Len(chunks) |-> Embed(chunks[i])],
        chunks,
        [i \in 1..Len(chunks) |-> ChunkMetadata(metadata, user_id, document_id, base + i - 1)])

\* the items of the collection after lines 121-135 of add_document ran with
\* the chunks and their embeddings
IndexChunks(items, user_id, document_id, metadata, chunks) ==
    CollectionAdd(items,
        [i \in 1..Len(chunks) |-> ChunkId(document_id, i - 1)],
        [i \in 1..Len(chunks) |-> Embed(chunks[i])],
        chunks,
        [i \in 1..Len(chunks) |-> ChunkMetadata(metadata, user_id, document_id, i - 1)])

EmptyStore == [n \in {} |-> None]

\* The store is persistent (PersistentClient(path=persist_directory)): a new
\* service finds what earlier runs of the service left there.  The stores the
\* model starts from: an empty one; one in which UserA has indexed TextLong
\* as d1; one in which UserC has indexed TextLong as d1 and TextShort as d2
\* (all with the caller metadata PersistedMetadata).
PersistedMetadata == [filename |-> "old.txt"]

Indexed(colls, user_id, document_id, text, metadata) ==
    LET got == GetOrCreateCollection(colls, user_id)
    IN [got EXCEPT ![CollectionName(user_id)].items =
           IndexChunks(@, user_id, document_id, metadata, SplitText(text))]

PersistedStores ==
    LET m == PersistedMetadata
    IN {EmptyStore,
        Indexed(EmptyStore, UserA, "d1", TextLong, m),
        Indexed(Indexed(EmptyStore, UserC, "d1", TextLong, m), UserC, "d2", TextShort, m)}

NoDocuments == [id \in {} |-> None]

\* db.sessions and db.users without a record
NoSessions == [id \in {} |-> None]

NoUsers == [id \in {} |-> None]

\* no file in the upload directory
NoFiles == [id \in {} |-> None]

Init ==
    /\ encoding_ok = TRUE
    /\ collections \in PersistedStores
    /\ tasks = EmptyBag
    /\ ret = NoCall
    /\ calls = 0
    /\ documents = NoDocuments
    /\ files = NoFiles
    /\ sessions = NoSessions
    /\ users = NoUsers

----------------------------------------------------------------------------
(* add_document *)

\* an add_document that replaces by delete-then-add: the chunks stored for
\* the document are deleted before the embeddings are asked for
AddDocumentStartDeletingFirst(user_id, document_id, text, metadata) ==
    LET call == [op |-> "add_document", user_id |-> user_id,
                 document_id |-> document_id, text |-> text, metadata |-> metadata]
        chunks == SplitText(text)
        name == CollectionName(user_id)
        got == GetOrCreateCollection(collections, user_id)
    IN /\ UNCHANGED <<documents, files, encoding_ok, sessions, users>>
       /\ calls < MaxCalls
       /\ calls' = calls + 1
       /\ IF chunks = <<>>
          THEN /\ ret' = Returned(call, 0)
               /\ UNCHANGED <<collections, tasks>>
          ELSE /\ collections' = [got EXCEPT ![name].items =
                     CollectionDelete(@, CollectionGetIds(@, [document_id |-> document_id]))]
               /\ tasks' = Suspend([op |-> "add_document", call |-> call,
                                     chunks |-> chunks, collection |-> name,
                                     stale |-> FALSE])
               /\ UNCHANGED ret

\* add_document up to the await of _generate_embeddings: split; no chunks
\* returns 0 at once; otherwise the collection is looked up or created and
\* the call waits for the embeddings
AddDocumentStart(user_id, document_id, text, metadata) ==
    LET call == [op |-> "add_document", user_id |-> user_id,
                 document_id |-> document_id, text |-> text, metadata |-> metadata]
        chunks == SplitText(text)
    IN /\ UNCHANGED <<documents, files, encoding_ok, sessions, users>>
       /\ calls < MaxCalls
       /\ calls' = calls + 1
       /\ IF chunks = <<>>
          THEN /\ ret' = Returned(call, 0)
               /\ UNCHANGED <<collections, tasks>>
          ELSE /\ collections' = GetOrCreateCollection(collections, user_id)
               /\ tasks' = Suspend([op |-> "add_document", call |-> call,
                                     chunks |-> chunks,
                                     collection |-> CollectionName(user_id),
                                     stale |-> FALSE])
               /\ UNCHANGED ret

\* add_document after the embeddings arrived: metadata, ids, collection.add
AddDocumentIndex(task, store_ok) ==
    LET call == task.call
    IN /\ UNCHANGED <<documents, files, encoding_ok, sessions, users>>
       /\ BagIn(task, tasks)
       /\ task.op = "add_document"
       /\ tasks' = Resume(task)
       /\ UNCHANGED calls
       /\ IF task.stale
          THEN /\ ret' = Raised(call, "CollectionNotFound")
               /\ UNCHANGED collections
          ELSE IF ~store_ok
          THEN /\ ret' = Raised(call, "StoreError")
               /\ UNCHANGED collections
          ELSE /\ collections' = [collections EXCEPT ![task.collection].items =
                     IndexChunks(@, call.user_id, call.document_id, call.metadata,
                                 task.chunks)]
               /\ ret' = Returned(call, Len(task.chunks))

----------------------------------------------------------------------------
(* query *)

\* the dict query builds for the record id of the answer
FormatResult(items, id, e) ==
    [text |-> items[id].document,
     metadata |-> items[id].metadata,
     distance |-> Distance(e, items[id].embedding),
     document_id |-> IF "document_id" \in DOMAIN items[id].metadata
                     THEN items[id].metadata["document_id"] ELSE None]

\* query up to the await of aembed_query
QueryStart(user_id, query_text, top_k, filter_metadata) ==
    LET call == [op |-> "query", user_id |-> user_id, query_text |-> query_text,
                 top_k |-> top_k, filter_metadata |-> filter_metadata]
    IN /\ UNCHANGED <<documents, files, encoding_ok, sessions, users>>
       /\ calls < MaxCalls
       /\ calls' = calls + 1
       /\ collections' = GetOrCreateCollection(collections, user_id)
       /\ tasks' = Suspend([op |-> "query", call |-> call,
                             collection |-> CollectionName(user_id), stale |-> FALSE])
       /\ UNCHANGED ret

\* a query whose store refuses to search a collection without records
QuerySearchRefusesEmpty(task, store_ok) ==
    LET call == task.call
    IN /\ UNCHANGED <<documents, files, encoding_ok, sessions, users>>
       /\ BagIn(task, tasks)
       /\ task.op = "query"
       /\ tasks' = Resume(task)
       /\ UNCHANGED <<collections, calls>>
       /\ IF task.stale
          THEN ret' = Raised(call, "CollectionNotFound")
          ELSE IF ~store_ok
          THEN ret' = Raised(call, "StoreError")
          ELSE LET items == collections[task.collection].items
                   e == Embed(call.query_text)
               IN IF items = EmptyItems
                  THEN ret' = Raised(call, "NoIndexException")
                  ELSE \E ids \in CollectionQuery(items, e, call.top_k, call.filter_metadata) :
                          ret' = Returned(call,
                                    [i \in 1..Len(ids) |-> FormatResult(items, ids[i], e)])

\* query after the query embedding arrived: collection.query and formatting
QuerySearch(task, store_ok) ==
    LET call == task.call
    IN /\ UNCHANGED <<documents, files, encoding_ok, sessions, users>>
       /\ BagIn(task, tasks)
       /\ task.op = "query"
       /\ tasks' = Resume(task)
       /\ UNCHANGED <<collections, calls>>
       /\ IF task.stale
          THEN ret' = Raised(call, "CollectionNotFound")
          ELSE IF ~store_ok
          THEN ret' = Raised(call, "StoreError")
          ELSE LET items == collections[task.collection].items
                   e == Embed(call.query_text)
               IN \E ids \in CollectionQuery(items, e, call.top_k, call.filter_metadata) :
                     ret' = Returned(call,
                               [i \in 1..Len(ids) |-> FormatResult(items, ids[i], e)])

----------------------------------------------------------------------------
(* the await of the embedding provider ends without embeddings *)

\* an add_document that embeds and stores chunk by chunk: the provider fails
\* after the first chunk was stored
EmbeddingFailsAfterFirstChunk(task) ==
    /\ UNCHANGED <<documents, files, encoding_ok, sessions, users>>
    /\ BagIn(task, tasks)
    /\ tasks' = Resume(task)
    /\ ret' = Raised(task.call, "EmbeddingError")
    /\ UNCHANGED calls
    /\ IF task.op = "add_document" /\ ~task.stale
       THEN collections' = [collections EXCEPT ![task.collection].items =
                IndexChunks(@, task.call.user_id, task.call.document_id,
                            task.call.metadata, SubSeq(task.chunks, 1, 1))]
       ELSE UNCHANGED collections

\* the provider fails: the exception passes through the except clause
EmbeddingFails(task) ==
    /\ UNCHANGED <<documents, files, encoding_ok, sessions, users>>
    /\ BagIn(task, tasks)
    /\ tasks' = Resume(task)
    /\ ret' = Raised(task.call, "EmbeddingError")
    /\ UNCHANGED <<collections, calls>>

\* the call is cancelled while it waits (CancelledError is no Exception)
Cancelled(task) ==
    /\ UNCHANGED <<documents, files, encoding_ok, sessions, users>>
    /\ BagIn(task, tasks)
    /\ tasks' = Resume(task)
    /\ ret' = [op |-> task.op, call |-> task.call, status |-> "cancelled",
               value |-> "CancelledError"]
    /\ UNCHANGED <<collections, calls>>

----------------------------------------------------------------------------
(* delete_document, get_document_count, reset_collection: no await inside  *)

\* a delete_document that calls collection.delete also with no ids, which
\* the store refuses
DeleteDocumentUnguarded(user_id, document_id, store_ok) ==
    LET call == [op |-> "delete_document", user_id |-> user_id,
                 document_id |-> document_id]
        name == CollectionName(user_id)
        got == GetOrCreateCollection(collections, user_id)
        ids == CollectionGetIds(got[name].items, [document_id |-> document_id])
    IN /\ UNCHANGED <<documents, files, encoding_ok, sessions, users>>
       /\ calls < MaxCalls
       /\ calls' = calls + 1
       /\ UNCHANGED tasks
       /\ IF ~store_ok \/ ids = {}
          THEN /\ ret' = Raised(call, IF store_ok THEN "ValueError" ELSE "StoreError")
               /\ collections' = got
          ELSE /\ collections' = [got EXCEPT ![name].items = CollectionDelete(@, ids)]
               /\ ret' = Returned(call, TRUE)

\* delete_document; store_ok: the store answers collection.get and
\* collection.delete (else collection.get raises)
DeleteDocument(user_id, document_id, store_ok) ==
    LET call == [op |-> "delete_document", user_id |-> user_id,
                 document_id |-> document_id]
        name == CollectionName(user_id)
        got == GetOrCreateCollection(collections, user_id)
        ids == CollectionGetIds(got[name].items, [document_id |-> document_id])
    IN /\ UNCHANGED <<documents, files, encoding_ok, sessions, users>>
       /\ calls < MaxCalls
       /\ calls' = calls + 1
       /\ UNCHANGED tasks
       /\ IF ~store_ok
          THEN /\ ret' = Raised(call, "StoreError")
               /\ collections' = got
          ELSE /\ collections' = [got EXCEPT ![name].items = CollectionDelete(@, ids)]
               /\ ret' = Returned(call, TRUE)

\* the value get_document_count computes from collection.get(): the number
\* of distinct truthy document_id values in the metadatas
CountDocuments(items) ==
    Cardinality({items[id].metadata["document_id"] :
                    id \in {i \in DOMAIN items :
                               /\ "document_id" \in DOMAIN items[i].metadata
                               /\ items[i].metadata["document_id"] # ""}})

\* get_document_count; store_ok: the store answers collection.get; an
\* exception is logged and 0 is returned
GetDocumentCount(user_id, store_ok) ==
    LET call == [op |-> "get_document_count", user_id |-> user_id]
        name == CollectionName(user_id)
        got == GetOrCreateCollection(collections, user_id)
    IN /\ UNCHANGED <<documents, files, encoding_ok, sessions, users>>
       /\ calls < MaxCalls
       /\ calls' = calls + 1
       /\ UNCHANGED tasks
       /\ collections' = got
       /\ ret' = Returned(call, IF store_ok THEN CountDocuments(got[name].items) ELSE 0)

RECURSIVE MarkStale(_, _)
\* the bag of tasks after the collection called name was deleted: the tasks
\* that hold a handle of it hold a stale one
MarkStale(bag, name) ==
    IF bag = EmptyBag THEN EmptyBag
    ELSE LET task == CHOOSE x \in BagToSet(bag) : TRUE
             one == SetToBag({task})
             now == IF task.collection = name THEN [task EXCEPT !.stale = TRUE] ELSE task
         IN MarkStale(bag (-) one, name) (+) SetToBag({now})

\* reset_collection: client.delete_collection(name); an exception (the store
\* fails, or there is no collection of that name) returns False.  The calls
\* that wait with a handle of the deleted collection are left with a stale one.
ResetCollection(user_id, store_ok) ==
    LET call == [op |-> "reset_collection", user_id |-> user_id]
        name == CollectionName(user_id)
    IN /\ UNCHANGED <<documents, files, encoding_ok, sessions, users>>
       /\ calls < MaxCalls
       /\ calls' = calls + 1
       /\ IF store_ok /\ name \in DOMAIN collections
          THEN /\ collections' = [n \in DOMAIN collections \ {name} |-> collections[n]]
               /\ tasks' = MarkStale(tasks, name)
               /\ ret' = Returned(call, TRUE)
          ELSE /\ ret' = Returned(call, FALSE)
               /\ UNCHANGED <<collections, tasks>>

----------------------------------------------------------------------------

Next ==
    \/ \E u \in UserIds, d \in DocIds, x \in Texts, m \in Metadatas :
          AddDocumentStart(u, d, x, m)
    \/ \E task \in BagToSet(tasks), ok \in BOOLEAN : AddDocumentIndex(task, ok)
    \/ \E u \in UserIds, q \in QueryTexts, k \in TopKs, f \in Filters :
          QueryStart(u, q, k, f)
    \/ \E task \in BagToSet(tasks), ok \in BOOLEAN : QuerySearch(task, ok)
    \/ \E task \in BagToSet(tasks) : EmbeddingFails(task)
    \/ \E task \in BagToSet(tasks) : Cancelled(task)
    \/ \E u \in UserIds, d \in DocIds, ok \in BOOLEAN : DeleteDocument(u, d, ok)
    \/ \E u \in UserIds, ok \in BOOLEAN : GetDocumentCount(u, ok)
    \/ \E u \in UserIds, ok \in BOOLEAN : ResetCollection(u, ok)

Spec == Init /\ [][Next]_vars

\* a call that waits is resumed: what it awaits arrives or raises, or the
\* call is cancelled
Resumed ==
    \E task \in BagToSet(tasks) :
       \/ \E ok \in BOOLEAN : AddDocumentIndex(task, ok)
       \/ \E ok \in BOOLEAN : QuerySearch(task, ok)
       \/ EmbeddingFails(task)
       \/ Cancelled(task)

\* the service under the event loop, which runs every call that can go on
SpecScheduled == Spec /\ WF_vars(Resumed)

----------------------------------------------------------------------------
(* The service called with the empty string as a document id: document_id  *)
(* is a str that add_document and delete_document take as it comes.        *)

DocIdsWithEmpty == {"", "d1"}

NextEmptyDocumentId ==
    \/ \E d \in DocIdsWithEmpty, x \in {TextShort, TextLong}, m \in Metadatas :
          AddDocumentStart(UserC, d, x, m)
    \/ \E task \in BagToSet(tasks), ok \in BOOLEAN : AddDocumentIndex(task, ok)
    \/ \E k \in TopKs, f \in Filters : QueryStart(UserC, <<"x">>, k, f)
    \/ \E task \in BagToSet(tasks), ok \in BOOLEAN : QuerySearch(task, ok)
    \/ \E task \in BagToSet(tasks) : EmbeddingFails(task)
    \/ \E task \in BagToSet(tasks) : Cancelled(task)
    \/ \E d \in DocIdsWithEmpty, ok \in BOOLEAN : DeleteDocument(UserC, d, ok)
    \/ \E ok \in BOOLEAN : GetDocumentCount(UserC, ok)
    \/ \E ok \in BOOLEAN : ResetCollection(UserC, ok)

SpecEmptyDocumentId == Init /\ [][NextEmptyDocumentId]_vars

----------------------------------------------------------------------------
(* Generation with retrieved context: generate_talk_points_with_rag        *)
(* (api/talk_points.py) and OpenAIService.generate_scenario_content.  Both *)
(* look up the user's profile, query the RAG service for 10 chunks, put    *)
(* the chunk texts into the prompt and ask the chat model.                 *)

GenerationOps == {"generate_talk_points_with_rag", "generate_scenario_content"}

\* top_k=10 of both calls of rag_service.query
GenerationTopK == 10

\* the query text built when the request names no persona, stage or context
GenerationQueryText == <<"x">>

\* the tasks when task goes on to wait at its next await, as the task next
Await(task, next) == (tasks (-) SetToBag({task})) (+) SetToBag({next})

\* what the except clauses make of an exception: talk points re-raise it,
\* scenario content raises Exception(f"Failed to generate scenario content: {e}")
GenerationRaised(task, error) ==
    Raised(task.call,
           IF task.op = "generate_scenario_content"
           THEN "Failed to generate scenario content: " \o error ELSE error)

\* the call up to await db.users.find_one
GenerationStart(op, user_id) ==
    /\ UNCHANGED <<documents, files, encoding_ok, sessions, users>>
    /\ calls < MaxCalls
    /\ calls' = calls + 1
    /\ tasks' = Suspend([op |-> op, call |-> [op |-> op, user_id |-> user_id],
                         pc |-> "find_one", collection |-> CollectionName(user_id),
                         stale |-> FALSE, retrieved_context |-> <<>>])
    /\ UNCHANGED <<collections, ret>>

\* find_one answered (db_ok) or failed: the query text is built and
\* rag_service.query runs up to its await of aembed_query
GenerationQuery(task, db_ok) ==
    /\ UNCHANGED <<documents, files, encoding_ok, sessions, users>>
    /\ BagIn(task, tasks)
    /\ task.op \in GenerationOps
    /\ task.pc = "find_one"
    /\ UNCHANGED calls
    /\ IF db_ok
       THEN /\ collections' = GetOrCreateCollection(collections, task.call.user_id)
            /\ tasks' = Await(task, [task EXCEPT !.pc = "aembed_query"])
            /\ UNCHANGED ret
       ELSE /\ tasks' = Resume(task)
            /\ ret' = GenerationRaised(task, "DatabaseError")
            /\ UNCHANGED collections

\* the await of aembed_query ended: rag_service.query raises what the
\* provider or the store raised, and the except clause of the generation
\* takes it; else the texts of the results become the retrieved context and
\* the call waits for the chat completion
GenerationSearch(task, embedding_ok, store_ok) ==
    /\ UNCHANGED <<documents, files, encoding_ok, sessions, users>>
    /\ BagIn(task, tasks)
    /\ task.op \in GenerationOps
    /\ task.pc = "aembed_query"
    /\ UNCHANGED <<collections, calls>>
    /\ IF ~embedding_ok
       THEN tasks' = Resume(task) /\ ret' = GenerationRaised(task, "EmbeddingError")
       ELSE IF ~store_ok
       THEN tasks' = Resume(task) /\ ret' = GenerationRaised(task, "StoreError")
       ELSE LET items == collections[task.collection].items
                e == Embed(GenerationQueryText)
            IN \E ids \in CollectionQuery(items, e, GenerationTopK, EmptyDict) :
                  /\ tasks' = Await(task,
                                    [task EXCEPT !.pc = "completion",
                                                 !.retrieved_context =
                                        [i \in 1..Len(ids) |-> items[ids[i]].document]])
                  /\ UNCHANGED ret

\* the chat completion ended: the content is returned, or the exception of
\* the chat model is taken by the except clause
GenerationComplete(task, openai_ok) ==
    /\ UNCHANGED <<documents, files, encoding_ok, sessions, users>>
    /\ BagIn(task, tasks)
    /\ task.op \in GenerationOps
    /\ task.pc = "completion"
    /\ tasks' = Resume(task)
    /\ UNCHANGED <<collections, calls>>
    /\ ret' = IF openai_ok
              THEN Returned(task.call, [retrieved_context |-> task.retrieved_context])
              ELSE GenerationRaised(task, "OpenAIError")

NextGeneration ==
    \/ \E op \in GenerationOps, u \in UserIds : GenerationStart(op, u)
    \/ \E task \in BagToSet(tasks), ok \in BOOLEAN : GenerationQuery(task, ok)
    \/ \E task \in BagToSet(tasks), eok \in BOOLEAN, sok \in BOOLEAN :
          GenerationSearch(task, eok, sok)
    \/ \E task \in BagToSet(tasks), ok \in BOOLEAN : GenerationComplete(task, ok)

SpecGeneration == Init /\ [][NextGeneration]_vars

----------------------------------------------------------------------------
(* Upload and background processing (api/documents.py): upload_document    *)
(* stores the file, inserts the record of the document and schedules       *)
(* process_and_index_document, which extracts the text, hands it to        *)
(* add_document and writes the outcome to the record.  documents is the    *)
(* collection db.documents, keyed by document_id.                          *)

\* the uploaded files, of content type text/plain: what open().read()
\* gives, or no readable file at the path
Files == {[readable |-> TRUE, text |-> TextShort],
          [readable |-> TRUE, text |-> TextLong],
          [readable |-> TRUE, text |-> TextBlank],
          [readable |-> FALSE, text |-> TextEmpty]}

\* len(text.splitlines()) of a text whose only line break is "\n"
LineCount(text) ==
    Cardinality({i \in 1..Len(text) : text[i] = LF})
    + (IF text # <<>> /\ text[Len(text)] # LF THEN 1 ELSE 0)

\* DocumentProcessor.process_document for text/plain: the text and its
\* metadata, or the message of the exception it raises
ProcessDocument(file) ==
    IF ~file.readable THEN [error |-> "FileNotFoundError"]
    ELSE IF Strip(file.text) = <<>> THEN [error |-> "Text file is empty"]
    ELSE [text |-> file.text, metadata |-> [line_count |-> LineCount(file.text)]]

\* db.documents.update_one({"document_id": document_id}, {"$set": fields}):
\* a filter that matches no record updates nothing
UpdateOne(docs, document_id, fields) ==
    IF document_id \in DOMAIN docs
    THEN [docs EXCEPT ![document_id] = Merge(@, fields)]
    ELSE docs

\* the $set of the except clause, for the exception whose str() is error
ErrorUpdateWithoutMessage(error) ==
    [status |-> "error", error_message |-> "Processing failed"]

ErrorUpdate(error) == [status |-> "error", error_message |-> error]

\* a $set to INDEXED that does not record the number of chunks
IndexedUpdateWithoutCount(chunk_count) == [status |-> "indexed", chunk_count |-> 0]

\* the $set after add_document returned chunk_count
IndexedUpdate(chunk_count) == [status |-> "indexed", chunk_count |-> chunk_count]

\* the except clause of process_and_index_document took an exception: the
\* task waits for the update of the record to ERROR
Failed(task, error) ==
    Await(task, [task EXCEPT !.pc = "update_error", !.error = error])

\* document_id can be the uuid4 of an upload: no record, no file, no chunk
\* and no running request or task carries it
FreshId(document_id) ==
    /\ document_id \notin DOMAIN documents \cup DOMAIN files
    /\ \A task \in BagToSet(tasks) :
          "document_id" \in DOMAIN task.call => task.call.document_id # document_id
    /\ \A n \in DOMAIN collections : \A id \in DOMAIN collections[n].items :
          collections[n].items[id].metadata["document_id"] # document_id

\* the file of the document in the upload directory, as open() finds it
FileAt(document_id) ==
    IF document_id \in DOMAIN files THEN files[document_id]
    ELSE [readable |-> FALSE, text |-> TextEmpty]

\* upload_document: the record is inserted under a fresh uuid with status
\* UPLOADING and the background task is scheduled; the task runs up to its
\* first await, the update to PROCESSING
UploadDocument(user_id, document_id, file) ==
    LET call == [op |-> "process_and_index_document", user_id |-> user_id,
                 document_id |-> document_id, file |-> file]
    IN /\ UNCHANGED <<encoding_ok, sessions, users>>
       /\ calls < MaxCalls
       /\ FreshId(document_id)
       /\ calls' = calls + 1
       /\ files' = [id \in DOMAIN files \cup {document_id} |->
                       IF id = document_id THEN file ELSE files[id]]
       /\ documents' = [id \in DOMAIN documents \cup {document_id} |->
                           IF id = document_id
                           THEN [document_id |-> document_id, user_id |-> user_id,
                                 status |-> "uploading"]
                           ELSE documents[id]]
       /\ tasks' = Suspend([op |-> "process_and_index_document", call |-> call,
                            pc |-> "update_processing",
                            collection |-> CollectionName(user_id),
                            stale |-> FALSE, chunks |-> <<>>, metadata |-> EmptyDict,
                            chunk_count |-> 0, error |-> None])
       /\ UNCHANGED <<collections, ret>>

\* the update to PROCESSING ended: the text is extracted and add_document
\* runs up to its await of the embeddings (or returns 0 for no chunks); an
\* exception of the database or of the extraction goes to the except clause
ProcessExtract(task, db_ok) ==
    LET call == task.call
        got == ProcessDocument(FileAt(call.document_id))
    IN /\ UNCHANGED <<files, encoding_ok, sessions, users>>
       /\ BagIn(task, tasks)
       /\ task.op = "process_and_index_document"
       /\ task.pc = "update_processing"
       /\ UNCHANGED <<calls, ret>>
       /\ IF ~db_ok
          THEN /\ tasks' = Failed(task, "DatabaseError")
               /\ UNCHANGED <<collections, documents>>
          ELSE /\ documents' = UpdateOne(documents, call.document_id,
                                         [status |-> "processing"])
               /\ IF "error" \in DOMAIN got
                  THEN /\ tasks' = Failed(task, got.error)
                       /\ UNCHANGED collections
                  ELSE LET chunks == SplitText(got.text)
                           metadata == Merge([content_type |-> "text/plain"],
                                             got.metadata)
                       IN IF chunks = <<>>
                          THEN /\ tasks' = Await(task, [task EXCEPT
                                              !.pc = "update_indexed",
                                              !.chunk_count = 0])
                               /\ UNCHANGED collections
                          ELSE /\ collections' =
                                     GetOrCreateCollection(collections, call.user_id)
                               /\ tasks' = Await(task, [task EXCEPT
                                              !.pc = "embeddings",
                                              !.chunks = chunks,
                                              !.metadata = metadata])

\* the await of the embeddings ended: add_document raises what the provider
\* or the store raised, and the except clause takes it; else the chunks are
\* added, add_document returns their number and the task waits for the
\* update of the record to INDEXED
ProcessIndex(task, embedding_ok, store_ok) ==
    LET call == task.call
    IN /\ UNCHANGED <<files, encoding_ok, sessions, users>>
       /\ BagIn(task, tasks)
       /\ task.op = "process_and_index_document"
       /\ task.pc = "embeddings"
       /\ UNCHANGED <<calls, ret, documents>>
       /\ IF ~embedding_ok
          THEN tasks' = Failed(task, "EmbeddingError") /\ UNCHANGED collections
          ELSE IF task.stale
          THEN tasks' = Failed(task, "CollectionNotFound") /\ UNCHANGED collections
          ELSE IF ~store_ok
          THEN tasks' = Failed(task, "StoreError") /\ UNCHANGED collections
          ELSE /\ collections' = [collections EXCEPT ![task.collection].items =
                     IndexChunks(@, call.user_id, call.document_id, task.metadata,
                                 task.chunks)]
               /\ tasks' = Await(task, [task EXCEPT !.pc = "update_indexed",
                                                    !.chunk_count = Len(task.chunks)])

\* the update to INDEXED ended: the task is over, or the exception of the
\* database goes to the except clause
ProcessRecordIndexed(task, db_ok) ==
    /\ UNCHANGED <<files, encoding_ok, sessions, users>>
    /\ BagIn(task, tasks)
    /\ task.op = "process_and_index_document"
    /\ task.pc = "update_indexed"
    /\ UNCHANGED <<calls, collections>>
    /\ IF db_ok
       THEN /\ documents' = UpdateOne(documents, task.call.document_id,
                                      IndexedUpdate(task.chunk_count))
            /\ tasks' = Resume(task)
            /\ ret' = Returned(task.call, None)
       ELSE /\ tasks' = Failed(task, "DatabaseError")
            /\ UNCHANGED <<documents, ret>>

\* the update to ERROR ended: the task is over; an exception of the
\* database leaves the except clause and the task
ProcessRecordError(task, db_ok) ==
    /\ UNCHANGED <<files, encoding_ok, sessions, users>>
    /\ BagIn(task, tasks)
    /\ task.op = "process_and_index_document"
    /\ task.pc = "update_error"
    /\ UNCHANGED <<calls, collections>>
    /\ tasks' = Resume(task)
    /\ IF db_ok
       THEN /\ documents' = UpdateOne(documents, task.call.document_id,
                                      ErrorUpdate(task.error))
            /\ ret' = Returned(task.call, None)
       ELSE /\ ret' = Raised(task.call, "DatabaseError")
            /\ UNCHANGED documents

\* DELETE /documents/{document_id}, the endpoint delete_document
DeleteEndpoint == "DELETE /documents/{document_id}"

\* the HTTPException of status 500 the endpoint makes of an exception
DeleteEndpointError(task, error) ==
    Raised(task.call, "Error deleting document: " \o error)

\* the endpoint up to await db.documents.find_one
DeleteEndpointStart(user_id, document_id) ==
    /\ calls < MaxCalls
    /\ calls' = calls + 1
    /\ tasks' = Suspend([op |-> DeleteEndpoint,
                         call |-> [op |-> DeleteEndpoint, user_id |-> user_id,
                                   document_id |-> document_id],
                         pc |-> "find_one", collection |-> CollectionName(user_id),
                         stale |-> FALSE])
    /\ UNCHANGED <<collections, ret, documents, files, encoding_ok, sessions, users>>

\* find_one ended: no record of the user under the id is a 404; else the
\* chunks are deleted from the vector store and the file from the disk, a
\* failure of either being logged only, and the endpoint waits for
\* db.documents.delete_one
DeleteEndpointFound(task, db_ok, store_ok, unlink_ok) ==
    LET call == task.call
        d == call.document_id
        name == CollectionName(call.user_id)
        got == GetOrCreateCollection(collections, call.user_id)
        ids == CollectionGetIds(got[name].items, [document_id |-> d])
    IN /\ BagIn(task, tasks)
       /\ task.op = DeleteEndpoint
       /\ task.pc = "find_one"
       /\ UNCHANGED <<calls, documents, encoding_ok, sessions, users>>
       /\ IF ~db_ok
          THEN /\ tasks' = Resume(task)
               /\ ret' = DeleteEndpointError(task, "DatabaseError")
               /\ UNCHANGED <<collections, files>>
          ELSE IF d \notin DOMAIN documents \/ documents[d].user_id # call.user_id
          THEN /\ tasks' = Resume(task)
               /\ ret' = Raised(call, "Document not found")
               /\ UNCHANGED <<collections, files>>
          ELSE /\ collections' = IF store_ok
                                 THEN [got EXCEPT ![name].items = CollectionDelete(@, ids)]
                                 ELSE got
               /\ files' = IF unlink_ok
                           THEN [id \in DOMAIN files \ {d} |-> files[id]]
                           ELSE files
               /\ tasks' = Await(task, [task EXCEPT !.pc = "delete_one"])
               /\ UNCHANGED ret

\* delete_one ended: the record is gone and the endpoint answers 200, or the
\* exception of the database becomes a 500
DeleteEndpointDone(task, db_ok) ==
    LET d == task.call.document_id
    IN /\ BagIn(task, tasks)
       /\ task.op = DeleteEndpoint
       /\ task.pc = "delete_one"
       /\ tasks' = Resume(task)
       /\ UNCHANGED <<calls, collections, files, encoding_ok, sessions, users>>
       /\ IF db_ok
          THEN /\ documents' = [id \in DOMAIN documents \ {d} |-> documents[id]]
               /\ ret' = Returned(task.call, "Document deleted successfully")
          ELSE /\ ret' = DeleteEndpointError(task, "DatabaseError")
               /\ UNCHANGED documents

NextDocuments ==
    \/ \E u \in UserIds, d \in DocIds, file \in Files : UploadDocument(u, d, file)
    \/ \E task \in BagToSet(tasks), ok \in BOOLEAN : ProcessExtract(task, ok)
    \/ \E task \in BagToSet(tasks), eok \in BOOLEAN, sok \in BOOLEAN :
          ProcessIndex(task, eok, sok)
    \/ \E task \in BagToSet(tasks), ok \in BOOLEAN : ProcessRecordIndexed(task, ok)
    \/ \E task \in BagToSet(tasks), ok \in BOOLEAN : ProcessRecordError(task, ok)
    \/ \E u \in UserIds, d \in DocIds : DeleteEndpointStart(u, d)
    \/ \E task \in BagToSet(tasks), dok \in BOOLEAN, sok \in BOOLEAN, uok \in BOOLEAN :
          DeleteEndpointFound(task, dok, sok, uok)
    \/ \E task \in BagToSet(tasks), ok \in BOOLEAN : DeleteEndpointDone(task, ok)

SpecDocuments == Init /\ [][NextDocuments]_vars

----------------------------------------------------------------------------
(* The segmenter alone: self.text_splitter.split_text applied to one text, *)
(* with the tokenizer loaded or not.                                       *)

\* longest short text
MaxTextLen == 3

\* most words of a long text
MaxWords == 12

Alphabet == {"a", "b", SP, LF, "."}

\* the texts of at most n characters over Alphabet
TextsUpTo(n) == UNION {[1..k -> Alphabet] : k \in 0..n}

Letters == <<"a", "b", "c", "d", "e", "f", "g", "h", "i", "j", "k", "l", "m", "n">>

RECURSIVE Joined(_, _)
\* sep.join of the first n words of Letters
Joined(n, sep) ==
    IF n = 1 THEN <<Letters[1]>> ELSE Joined(n - 1, sep) \o sep \o <<Letters[n]>>

\* texts of more tokens than a chunk holds: words joined by a separator of
\* the splitter, and words that nothing separates
LongTexts ==
    {Joined(n, sep) : n \in 9..MaxWords,
                      sep \in {<<SP>>, <<LF>>, <<LF, LF>>, <<".", SP>>, <<>>}}

\* the longest run of letters of text that ends at its i-th character
RECURSIVE RunAt(_, _)
RunAt(text, i) ==
    IF i = 0 \/ text[i] \in SeparatorChars THEN 0 ELSE 1 + RunAt(text, i - 1)

\* With the fallback counter the splitter cuts a word longer than the chunk
\* size into single characters of zero tokens; the units of the model
\* cannot express that, so with the fallback the texts are those whose
\* words, taken together where nothing separates them, fit into a chunk.
Measurable(text) ==
    \A i \in 1..Len(text) : RunAt(text, i) * TokensPerUnit <= ChunkSize

InitSegmenter ==
    /\ encoding_ok \in BOOLEAN
    /\ \E text \in TextsUpTo(MaxTextLen) \cup LongTexts :
          /\ encoding_ok \/ Measurable(text)
          /\ tasks = SetToBag({[op |-> "split_text",
                                call |-> [op |-> "split_text", text |-> text]]})
    /\ collections = EmptyStore
    /\ ret = NoCall
    /\ calls = 0
    /\ documents = NoDocuments
    /\ files = NoFiles
    /\ sessions = NoSessions
    /\ users = NoUsers

\* chunks = self.text_splitter.split_text(text)
Segment(task) ==
    /\ BagIn(task, tasks)
    /\ task.op = "split_text"
    /\ tasks' = Resume(task)
    /\ ret' = Returned(task.call, SplitText(task.call.text))
    /\ calls' = calls + 1
    /\ UNCHANGED <<collections, documents, files, encoding_ok, sessions, users>>

NextSegmenter == \E task \in BagToSet(tasks) : Segment(task)

SpecSegmenter == InitSegmenter /\ [][NextSegmenter]_vars

----------------------------------------------------------------------------
(* Practice sessions (api/sessions.py): send_message, complete_session and *)
(* update_session over db.sessions (keyed by session_id) and db.users      *)
(* (keyed by user_id).  Every database call is awaited; a request is       *)
(* suspended at each, and the call takes effect in the step that resumes   *)
(* the request.                                                            *)

SessionIds == {"s1", "s2"}

\* the users that send requests; the sessions are UserC's
SessionUsers == {UserC, UserA}

RequestMessages == {"m1", "m2"}

SessionStatuses == {"setup", "in_progress", "completed", "archived"}

\* the least number of messages complete_session asks for
MinMessages == 6

\* ChatMessage(role, message).model_dump(), without the timestamp
ChatMessage(role, message) == [role |-> role, message |-> message]

\* the text openai_service.generate_session_response answers a transcript with
GenerateSessionResponse(transcript) ==
    "re:" \o transcript[Len(transcript)].message

RECURSIVE Turns(_)
\* a transcript of n earlier turns
Turns(n) ==
    IF n = 0 THEN <<>>
    ELSE Turns(n - 1) \o <<ChatMessage("user", "m0"), ChatMessage("ai", "re:m0")>>

\* two sessions of UserC in progress, the first with no, two or three
\* turns and the second with three, and the users as registration left them
InitSessions ==
    /\ encoding_ok = TRUE
    /\ collections = EmptyStore
    /\ tasks = EmptyBag
    /\ ret = NoCall
    /\ calls = 0
    /\ documents = NoDocuments
    /\ files = NoFiles
    /\ \E n \in {0, 2, 3} :
          sessions = [id \in SessionIds |->
                        [session_id |-> id, user_id |-> UserC,
                         status |-> "in_progress",
                         transcript |-> IF id = "s1" THEN Turns(n) ELSE Turns(3)]]
    /\ users = [u \in SessionUsers |-> [user_id |-> u, activation_state |-> "new"]]

\* the HTTPException of verify_session_ownership for the request, or None
OwnershipError(call) ==
    IF call.session_id \notin DOMAIN sessions THEN "Session not found"
    ELSE IF sessions[call.session_id].user_id # call.user_id
    THEN "You don't have permission to access this session"
    ELSE None

\* a request ends with an HTTPException before it awaits anything else
SessionRejected(call, detail) ==
    /\ ret' = Raised(call, detail)
    /\ UNCHANGED <<tasks, sessions, users>>

\* send_message up to the await of generate_session_response: the session
\* is read and checked, the user message is appended to the local transcript
SendMessageStart(user_id, session_id, message) ==
    LET call == [op |-> "send_message", user_id |-> user_id,
                 session_id |-> session_id, message |-> message]
        error == OwnershipError(call)
    IN /\ calls < MaxCalls
       /\ calls' = calls + 1
       /\ UNCHANGED <<collections, documents, files, encoding_ok, sessions, users>>
       /\ IF error # None
          THEN SessionRejected(call, error)
          ELSE IF sessions[session_id].status # "in_progress"
          THEN SessionRejected(call, "Session is not in_progress")
          ELSE /\ tasks' = Suspend([op |-> "send_message", call |-> call,
                                    pc |-> "generate_session_response",
                                    transcript |->
                                       Append(sessions[session_id].transcript,
                                              ChatMessage("user", message))])
               /\ UNCHANGED ret

\* the response of the model arrived: it is appended to the local transcript
\* and the transcript of the session is set to the local one
SendMessageStore(task, openai_ok, db_ok) ==
    LET call == task.call
        ai_response == GenerateSessionResponse(task.transcript)
        transcript == Append(task.transcript, ChatMessage("ai", ai_response))
    IN /\ BagIn(task, tasks)
       /\ task.op = "send_message"
       /\ UNCHANGED <<calls, collections, documents, files, encoding_ok, users>>
       /\ tasks' = Resume(task)
       /\ IF ~openai_ok
          THEN ret' = Raised(call, "Failed to process message: OpenAIError")
               /\ UNCHANGED sessions
          ELSE IF ~db_ok
          THEN ret' = Raised(call, "Failed to process message: DatabaseError")
               /\ UNCHANGED sessions
          ELSE /\ sessions' = UpdateOne(sessions, call.session_id,
                                        [transcript |-> transcript])
               /\ ret' = Returned(call, [ai_response |-> ai_response,
                                         turn_number |-> Len(transcript) \div 2])

\* complete_session up to the await of the update of the status: the session
\* is read and checked
CompleteSessionStart(user_id, session_id) ==
    LET call == [op |-> "complete_session", user_id |-> user_id,
                 session_id |-> session_id]
        error == OwnershipError(call)
    IN /\ calls < MaxCalls
       /\ calls' = calls + 1
       /\ UNCHANGED <<collections, documents, files, encoding_ok, sessions, users>>
       /\ IF error # None
          THEN SessionRejected(call, error)
          ELSE IF sessions[session_id].status # "in_progress"
          THEN SessionRejected(call, "Session is already " \o sessions[session_id].status)
          ELSE IF Len(sessions[session_id].transcript) < MinMessages
          THEN SessionRejected(call,
                  "Session must have at least 3 conversation turns before completion")
          ELSE /\ tasks' = Suspend([op |-> "complete_session", call |-> call,
                                    pc |-> "update_one"])
               /\ UNCHANGED ret

\* one await of complete_session ended: the status is set to completed; the
\* user is read; the completed sessions of a new user are counted; the user
\* whose count is 1 is activated; the session is read and returned
CompleteSessionStep(task, db_ok) ==
    LET call == task.call
        completed_count ==
            Cardinality({id \in DOMAIN sessions :
                            /\ sessions[id].user_id = call.user_id
                            /\ sessions[id].status = "completed"})
    IN /\ BagIn(task, tasks)
       /\ task.op = "complete_session"
       /\ UNCHANGED <<calls, collections, documents, files, encoding_ok>>
       /\ IF ~db_ok
          THEN /\ tasks' = Resume(task)
               /\ ret' = Raised(call, "Failed to complete session: DatabaseError")
               /\ UNCHANGED <<sessions, users>>
          ELSE CASE task.pc = "update_one" ->
                      /\ sessions' = UpdateOne(sessions, call.session_id,
                                               [status |-> "completed"])
                      /\ tasks' = Await(task, [task EXCEPT !.pc = "users.find_one"])
                      /\ UNCHANGED <<ret, users>>
                 [] task.pc = "users.find_one" ->
                      /\ tasks' = Await(task, [task EXCEPT !.pc =
                            IF call.user_id \in DOMAIN users
                               /\ users[call.user_id].activation_state = "new"
                            THEN "count_documents" ELSE "find_one"])
                      /\ UNCHANGED <<ret, sessions, users>>
                 [] task.pc = "count_documents" ->
                      /\ tasks' = Await(task, [task EXCEPT !.pc =
                            IF completed_count = 1
                            THEN "users.update_one" ELSE "find_one"])
                      /\ UNCHANGED <<ret, sessions, users>>
                 [] task.pc = "users.update_one" ->
                      /\ users' = UpdateOne(users, call.user_id,
                                            [activation_state |-> "activated"])
                      /\ tasks' = Await(task, [task EXCEPT !.pc = "find_one"])
                      /\ UNCHANGED <<ret, sessions>>
                 [] task.pc = "find_one" ->
                      /\ tasks' = Resume(task)
                      /\ ret' = Returned(call,
                                   IF call.session_id \in DOMAIN sessions
                                   THEN sessions[call.session_id] ELSE None)
                      /\ UNCHANGED <<sessions, users>>

\* update_session up to the await of the update: ownership is checked and
\* the fields that are set make the update; status is the status of the
\* SessionUpdate, None when it is not set
UpdateSessionStart(user_id, session_id, status) ==
    LET call == [op |-> "update_session", user_id |-> user_id,
                 session_id |-> session_id, status |-> status]
        error == OwnershipError(call)
    IN /\ calls < MaxCalls
       /\ calls' = calls + 1
       /\ UNCHANGED <<collections, documents, files, encoding_ok, sessions, users>>
       /\ IF error # None
          THEN SessionRejected(call, error)
          ELSE IF status = None
          THEN SessionRejected(call, "No fields to update")
          ELSE /\ tasks' = Suspend([op |-> "update_session", call |-> call,
                                    pc |-> "update_one"])
               /\ UNCHANGED ret

\* the update of update_session ended: the status is set; then the session
\* is read and returned
UpdateSessionStep(task, db_ok) ==
    LET call == task.call
    IN /\ BagIn(task, tasks)
       /\ task.op = "update_session"
       /\ UNCHANGED <<calls, collections, documents, files, encoding_ok, users>>
       /\ IF ~db_ok
          THEN /\ tasks' = Resume(task)
               /\ ret' = Raised(call, "DatabaseError")
               /\ UNCHANGED sessions
          ELSE IF task.pc = "update_one"
          THEN /\ sessions' = UpdateOne(sessions, call.session_id,
                                        [status |-> call.status])
               /\ tasks' = Await(task, [task EXCEPT !.pc = "find_one"])
               /\ UNCHANGED ret
          ELSE /\ tasks' = Resume(task)
               /\ ret' = Returned(call, sessions[call.session_id])
               /\ UNCHANGED sessions

NextSessions ==
    \/ \E u \in SessionUsers, id \in SessionIds, m \in RequestMessages :
          SendMessageStart(u, id, m)
    \/ \E task \in BagToSet(tasks), ook \in BOOLEAN, dok \in BOOLEAN :
          SendMessageStore(task, ook, dok)
    \/ \E u \in SessionUsers, id \in SessionIds : CompleteSessionStart(u, id)
    \/ \E task \in BagToSet(tasks), ok \in BOOLEAN : CompleteSessionStep(task, ok)
    \/ \E u \in SessionUsers, id \in SessionIds, st \in SessionStatuses \cup {None} :
          UpdateSessionStart(u, id, st)
    \/ \E task \in BagToSet(tasks), ok \in BOOLEAN : UpdateSessionStep(task, ok)

SpecSessions == InitSessions /\ [][NextSessions]_vars

----------------------------------------------------------------------------
(* What the claims speak of *)

\* the records of the collection that serves user_id
Items(colls, user_id) == colls[CollectionName(user_id)].items

\* the ids of the records of document_id in the collection that serves user_id
ChunksOf(colls, user_id, document_id) ==
    IF CollectionName(user_id) \in DOMAIN colls
    THEN CollectionGetIds(Items(colls, user_id), [document_id |-> document_id])
    ELSE {}

\* every record of the store, with the collection and the id it is stored under
AllChunks(colls) ==
    UNION {{<<n, id, colls[n].items[id]>> : id \in DOMAIN colls[n].items} : n \in DOMAIN colls}

\* what get_document_count(user_id) answers in this state of the store
DocumentCount(colls, user_id) ==
    IF CollectionName(user_id) \in DOMAIN colls
    THEN CountDocuments(Items(colls, user_id)) ELSE 0

\* this step ends the suspended call task with the outcome status
Ends(task, status) ==
    /\ BagIn(task, tasks)
    /\ tasks' = Resume(task)
    /\ ret'.status = status
    /\ ret'.call = task.call

\* this step is a whole call that does not suspend, with the outcome ret'
Atomic(op) ==
    /\ calls' = calls + 1
    /\ tasks' = tasks
    /\ ret'.op = op

\* this step suspends a new call at its await
Suspends(task) ==
    /\ calls' = calls + 1
    /\ tasks' = Suspend(task)

IngestTasks == {task \in BagToSet(tasks) : task.op = "add_document"}

QueryTasks == {task \in BagToSet(tasks) : task.op = "query"}

\* empty or whitespace-only
IsBlank(text) == Strip(text) = <<>>

----------------------------------------------------------------------------
(* C1: tenant isolation of reads.  A query of a user returns no chunk that *)
(* was ingested under another user id (add_document stamps the id of the   *)
(* ingesting user into the metadata of every chunk it writes).             *)
(* Refuted: UserA = "a-b" and UserB = "a_b" are served by the same         *)
(* collection "user_a_b".                                                  *)
C1_QueryReturnsOwnChunksOnly ==
    (ret.op = "query" /\ ret.status = "returned") =>
        \A i \in 1..Len(ret.value) : ret.value[i].metadata["user_id"] = ret.call.user_id

(* C2: collection naming is one-to-one.  Two calls of distinct user ids    *)
(* never hold a handle of the same physical collection.                    *)
(* Refuted: replace('-', '_') maps "a-b" and "a_b" to the same name.       *)
C2_DistinctUsersDistinctCollections ==
    \A t1, t2 \in BagToSet(tasks) :
        t1.call.user_id # t2.call.user_id => t1.collection # t2.collection

(* C3: idempotent re-ingestion.  When add_document(user_id, document_id,   *)
(* text) indexes its chunks and the store already holds that document as   *)
(* an ingest of the same (user_id, document_id, text) left it (the call    *)
(* that finished last was that same ingest, or the chunks stored for the   *)
(* document are exactly the chunks of the text, under that user id), the   *)
(* step changes nothing in the store: the same records (so no chunk text   *)
(* of the document is stored more often than after the first ingest), the  *)
(* same document count, in which the document counts once.                 *)
StoredAsIngested(task) ==
    LET call == task.call
        items == collections[task.collection].items
        ids == CollectionGetIds(items, [document_id |-> call.document_id])
    IN /\ ids = {ChunkId(call.document_id, i - 1) : i \in 1..Len(task.chunks)}
       /\ \A i \in 1..Len(task.chunks) :
             LET r == items[ChunkId(call.document_id, i - 1)]
             IN /\ r.document = task.chunks[i]
                /\ r.metadata["user_id"] = call.user_id

C3_ReingestSameTextChangesNothing ==
    [][\A task \in IngestTasks :
          (/\ Ends(task, "returned")
           /\ ~task.stale
           /\ \/ ret = Returned(task.call, Len(task.chunks))
              \/ StoredAsIngested(task))
          => /\ collections' = collections
             /\ DocumentCount(collections', task.call.user_id)
                   = DocumentCount(collections, task.call.user_id)
             /\ ChunksOf(collections', task.call.user_id, task.call.document_id) # {}
             /\ ret'.value = Len(task.chunks)]_vars

\* reached: UserA's d1 = TextLong of an earlier run was ingested again, with
\* the same text, and the store is as the earlier run left it
C3_Witness ==
    /\ ret = Returned([op |-> "add_document", user_id |-> UserA, document_id |-> "d1",
                       text |-> TextLong, metadata |-> CHOOSE m \in Metadatas : TRUE], 2)
    /\ collections = Indexed(EmptyStore, UserA, "d1", TextLong, PersistedMetadata)

(* C4: colliding chunk ids overwrite.  After add_document has indexed its  *)
(* chunks, the record stored under each of its chunk ids holds the text,   *)
(* the embedding and the metadata of this ingest.                          *)
(* Refuted: collection.add ignores a record whose id is already stored.    *)
C4_CollidingIdsOverwrite ==
    [][\A task \in IngestTasks :
          Ends(task, "returned") =>
             \A i \in 1..Len(task.chunks) :
                LET call == task.call
                    r == collections'[task.collection].items[ChunkId(call.document_id, i - 1)]
                IN /\ r.document = task.chunks[i]
                   /\ r.embedding = Embed(task.chunks[i])
                   /\ r.metadata = ChunkMetadata(call.metadata, call.user_id,
                                                 call.document_id, i - 1)]_vars

(* C5: re-ingestion replaces the document's chunks.  After add_document    *)
(* has indexed the n chunks of a document, the user's collection holds     *)
(* exactly n chunks with that document_id.                                 *)
(* Refuted: the chunks of an earlier, longer ingest stay.                  *)
C5_ReingestLeavesExactlyNChunks ==
    [][\A task \in IngestTasks :
          Ends(task, "returned") =>
             Cardinality(ChunksOf(collections', task.call.user_id, task.call.document_id))
                = Len(task.chunks)]_vars

(* C6: all-or-nothing ingestion.  No step of an add_document call before   *)
(* its embeddings arrive writes a chunk: neither the step that suspends    *)
(* the call at the embedding call, nor the step in which the embedding     *)
(* call fails or the call is cancelled.  So the records of the store after *)
(* a failed or cancelled ingest are those before it.                       *)
C6_FailedIngestWritesNothing ==
    [][\A task \in {t \in BagToSet(tasks) \cup BagToSet(tasks') : t.op = "add_document"} :
          (\/ Suspends(task)
           \/ (Ends(task, "raised") /\ ret'.value = "EmbeddingError")
           \/ Ends(task, "cancelled"))
          => AllChunks(collections') = AllChunks(collections)]_vars

\* reached: UserC's ingest of TextLong as d2 failed at the embedding call or
\* was cancelled, and the store holds what the earlier run left, d2 with the
\* one chunk of TextShort
C6_Witness ==
    /\ ret.op = "add_document"
    /\ ret.status \in {"raised", "cancelled"}
    /\ ret.value \in {"EmbeddingError", "CancelledError"}
    /\ ret.call.user_id = UserC
    /\ ret.call.document_id = "d2"
    /\ ret.call.text = TextLong
    /\ collections = Indexed(Indexed(EmptyStore, UserC, "d1", TextLong, PersistedMetadata),
                             UserC, "d2", TextShort, PersistedMetadata)

(* C7: deletion completeness.  A delete_document(user_id, document_id)     *)
(* that returns leaves no chunk of that document_id in the collection that *)
(* serves the user; from then on the collection holds none until an        *)
(* add_document of that document_id writes into it, and a query of the     *)
(* user that searches a collection without chunks of the document returns  *)
(* no chunk whose document_id is the deleted one.                          *)
C7_DeletedStaysDeleted ==
    [][/\ (Atomic("delete_document") /\ ret'.status = "returned")
          => /\ ret'.value = TRUE
             /\ ChunksOf(collections', ret'.call.user_id, ret'.call.document_id) = {}
       /\ collections' # collections
          => \A u \in UserIds, d \in DocIds :
                ChunksOf(collections, u, d) = {}
                => \/ ChunksOf(collections', u, d) = {}
                   \/ \E task \in IngestTasks :
                         /\ task.call.document_id = d
                         /\ task.collection = CollectionName(u)
                         /\ Ends(task, "returned")
       /\ \A task \in QueryTasks :
             Ends(task, "returned")
             => \A d \in DocIds :
                   ChunksOf(collections, task.call.user_id, d) = {}
                   => \A i \in 1..Len(ret'.value) : ret'.value[i].document_id # d]_vars

\* reached: in the store where UserC holds d1 (two chunks) and d2 (one
\* chunk), d1 was deleted and the query for two results returned the chunk
\* of d2 alone
C7_Witness ==
    /\ ret.op = "query"
    /\ ret.status = "returned"
    /\ ret.call.user_id = UserC
    /\ ret.call.top_k = 2
    /\ ret.call.filter_metadata = EmptyDict
    /\ Len(ret.value) = 1
    /\ ret.value[1].document_id = "d2"
    /\ ret.value[1].metadata["filename"] = PersistedMetadata["filename"]
    /\ ChunksOf(collections, UserC, "d1") = {}

(* C8: top-k size.  A query without a metadata filter that returns,        *)
(* returns exactly min(top_k, n) results, n the number of chunks in the    *)
(* user's collection when it is searched; so fewer than top_k iff          *)
(* n < top_k.  A query that raises does so because the embedding provider  *)
(* or the store failed or its collection was deleted meanwhile, never      *)
(* because n < top_k.                                                      *)
C8_TopKSize ==
    [][\A task \in QueryTasks :
          LET k == task.call.top_k
              n == Cardinality(DOMAIN collections[task.collection].items)
          IN /\ (Ends(task, "returned") /\ task.call.filter_metadata = EmptyDict)
                => /\ Len(ret'.value) = Min(k, n)
                   /\ Len(ret'.value) < k <=> n < k
             /\ Ends(task, "raised")
                => \/ ret'.value \in {"EmbeddingError", "StoreError"}
                   \/ ret'.value = "CollectionNotFound" /\ task.stale]_vars

\* reached: a query for two results on a collection of one chunk returned one
C8_Witness ==
    /\ ret.op = "query"
    /\ ret.status = "returned"
    /\ ret.call.top_k = 2
    /\ ret.call.filter_metadata = EmptyDict
    /\ Len(ret.value) = 1
    /\ CollectionName(ret.call.user_id) \in DOMAIN collections
    /\ Cardinality(DOMAIN Items(collections, ret.call.user_id)) = 1

(* C9: a query for a user who has no collection yet gets one created and   *)
(* is suspended, not refused; a query that searches a collection without   *)
(* chunks returns the empty list, and raises only if the embedding         *)
(* provider or the store failed.                                           *)
C9_EmptyCollectionEmptyList ==
    [][/\ \A task \in {t \in BagToSet(tasks') : t.op = "query"} :
             (Suspends(task) /\ task.collection \notin DOMAIN collections)
             => /\ ret' = ret
                /\ ~task.stale
                /\ collections'[task.collection].items = EmptyItems
       /\ \A task \in QueryTasks :
             (/\ ~task.stale
              /\ collections[task.collection].items = EmptyItems
              /\ tasks' = Resume(task)
              /\ ret'.call = task.call
              /\ ret'.status # "cancelled")
             => \/ ret' = Returned(task.call, <<>>)
                \/ ret' = Raised(task.call, "EmbeddingError")
                \/ ret' = Raised(task.call, "StoreError")]_vars

\* reached: with an empty store, the first call was a query of UserB for two
\* results; it returned the empty list
C9_Witness ==
    /\ calls = 1
    /\ ret.op = "query"
    /\ ret.status = "returned"
    /\ ret.call.user_id = UserB
    /\ ret.value = <<>>
    /\ Items(collections, UserB) = EmptyItems

(* C10: empty input.  An add_document whose text is empty or only          *)
(* whitespace returns 0 in the step that starts it, without raising and    *)
(* without being suspended; it leaves the store as it was (no chunk, no    *)
(* collection), and with it the value of get_document_count for the user.  *)
C10_BlankTextReturnsZero ==
    [][\A u \in UserIds, d \in DocIds, x \in {t \in Texts : IsBlank(t)}, m \in Metadatas :
          LET call == [op |-> "add_document", user_id |-> u, document_id |-> d,
                       text |-> x, metadata |-> m]
          IN /\ \A task \in BagToSet(tasks') : task.call # call
             /\ (calls' = calls + 1 /\ tasks' = tasks /\ ret'.call = call)
                => /\ ret' = Returned(call, 0)
                   /\ collections' = collections
                   /\ DocumentCount(collections', u) = DocumentCount(collections, u)]_vars

\* reached: UserA, whose d1 an earlier run indexed, ingested a text of
\* whitespace as d2: 0 was returned and the store is as it was
C10_Witness ==
    /\ ret = Returned([op |-> "add_document", user_id |-> UserA, document_id |-> "d2",
                       text |-> TextBlank, metadata |-> CHOOSE m \in Metadatas : TRUE], 0)
    /\ calls = 1
    /\ DocumentCount(collections, UserA) = 1
    /\ ChunksOf(collections, UserA, "d2") = {}

(* C11: get_document_count(user_id), when the store answers it, returns   *)
(* the number of distinct document_id values among the chunks stored in    *)
(* the collection that serves the user.                                    *)
(* Refuted: the count skips the document_id values that are falsy, so the  *)
(* chunks of a document ingested under the document id "" are stored and   *)
(* not counted.  (When the store fails, 0 is returned whatever is stored:  *)
(* see C14.)                                                               *)
C11_CountIsDistinctDocumentIds ==
    [][\A u \in UserIds :
          GetDocumentCount(u, TRUE)
          => LET items == Items(collections', u)
             IN ret'.value = Cardinality({items[id].metadata["document_id"] :
                                             id \in DOMAIN items})]_vars

(* C12: delete is idempotent and a no-op on no match.  A delete_document   *)
(* whose store answers returns True and does not raise; when the           *)
(* collection holds no chunk of the document, the stored chunks are left   *)
(* as they were; and a delete_document that follows the same               *)
(* delete_document leaves the store as the first one left it.              *)
C12_DeleteIdempotent ==
    [][\A u \in UserIds, d \in DocIds :
          LET call == [op |-> "delete_document", user_id |-> u, document_id |-> d]
          IN DeleteDocument(u, d, TRUE)
             => /\ ret' = Returned(call, TRUE)
                /\ ChunksOf(collections, u, d) = {}
                   => AllChunks(collections') = AllChunks(collections)
                /\ ret = Returned(call, TRUE) => collections' = collections]_vars

\* reached: on the empty store the first call was delete_document(UserC,
\* "d1"): it returned True and the store holds UserC's collection, empty
C12_Witness ==
    /\ calls = 1
    /\ ret = Returned([op |-> "delete_document", user_id |-> UserC, document_id |-> "d1"], TRUE)
    /\ collections = GetOrCreateCollection(EmptyStore, UserC)

(* C13: reset drops everything of the user.  A reset_collection(user_id)   *)
(* that returns True leaves no chunk in the collection that serves the     *)
(* user; after it the collection holds no chunk until an add_document of   *)
(* that user indexes its chunks; and while it holds none,                  *)
(* get_document_count of the user returns 0 and a query of the user        *)
(* returns the empty list.                                                 *)
(* Refuted: the collection that serves UserA = "a-b" also serves UserB =   *)
(* "a_b" (C2), so an add_document of UserB fills it again.  (A             *)
(* reset_collection whose store fails returns False and drops nothing:     *)
(* see C14.)                                                               *)
StoredFor(colls, user_id) ==
    IF CollectionName(user_id) \in DOMAIN colls THEN DOMAIN Items(colls, user_id) ELSE {}

C13_ResetDropsEverything ==
    [][/\ (Atomic("reset_collection") /\ ret'.value = TRUE)
          => StoredFor(collections', ret'.call.user_id) = {}
       /\ (ret.op = "reset_collection" /\ ret.value = TRUE)
          => \/ StoredFor(collections', ret.call.user_id) = {}
             \/ \E task \in IngestTasks :
                   task.call.user_id = ret.call.user_id /\ Ends(task, "returned")
       /\ \A u \in UserIds :
             (GetDocumentCount(u, TRUE) /\ StoredFor(collections, u) = {})
             => ret'.value = 0
       /\ \A task \in QueryTasks :
             (Ends(task, "returned") /\ StoredFor(collections, task.call.user_id) = {})
             => ret'.value = <<>>]_vars

(* C14: failure propagation.  The step of a call in which the embedding    *)
(* provider or the store fails ends the call by raising: no operation      *)
(* reports such a failure as a normal return value.                        *)
(* Refuted: get_document_count returns 0 and reset_collection returns      *)
(* False when the store fails.  (What the other operations raise is the    *)
(* exception of the provider or of the store as it came; the service       *)
(* defines no error type of its own.)                                      *)
C14_FailuresAreRaised ==
    [][/\ \A task \in BagToSet(tasks) :
             (EmbeddingFails(task) \/ AddDocumentIndex(task, FALSE) \/ QuerySearch(task, FALSE))
             => ret'.status = "raised"
       /\ \A u \in UserIds, d \in DocIds :
             DeleteDocument(u, d, FALSE) => ret'.status = "raised"
       /\ \A u \in UserIds :
             (GetDocumentCount(u, FALSE) \/ ResetCollection(u, FALSE))
             => ret'.status = "raised"]_vars

(* C15: graceful degradation of generation.  When the RAG query of a       *)
(* talk-point or scenario-content generation fails (the embedding provider *)
(* or the store fails), the generation does not end: it goes on to the     *)
(* chat completion with an empty retrieved context.                        *)
(* Refuted: the exception of rag_service.query reaches the except clause   *)
(* of the generation, which raises.                                        *)
C15_QueryFailureDegrades ==
    [][\A task \in BagToSet(tasks) :
          (GenerationSearch(task, FALSE, TRUE) \/ GenerationSearch(task, TRUE, FALSE))
          => /\ ret' = ret
             /\ tasks' = Await(task, [task EXCEPT !.pc = "completion"])]_vars


----------------------------------------------------------------------------
\* the background tasks of uploaded documents
ProcessTasks ==
    {task \in BagToSet(tasks) : task.op = "process_and_index_document"}

C17_ChunksTagged ==
    [][\A task \in IngestTasks :
          Ends(task, "returned") =>
             \A i \in 0..(Len(task.chunks) - 1) :
                LET call == task.call
                    id == ChunkId(call.document_id, i)
                    items == collections'[task.collection].items
                IN /\ id \in DOMAIN items
                   /\ items[id].document = task.chunks[i + 1]
                   /\ items[id].metadata["chunk_index"] = i
                   /\ items[id].metadata["document_id"] = call.document_id
                   /\ items[id].metadata["user_id"] = call.user_id]_vars

----------------------------------------------------------------------------
\* the chunks split_text returned
SegmenterChunks == IF ret.op = "split_text" THEN ret.value ELSE <<>>

(* C18: bounded chunk size.  Every chunk split_text returns measures at    *)
(* most ChunkSize tokens under _count_tokens, except a chunk that is one   *)
(* unit which nothing splits.                                              *)
(* Refuted: when tiktoken raises, _count_tokens is len(text) // 4, which   *)
(* rounds every split down; splits measured at 1000 tokens together are    *)
(* merged into a chunk that measures more.                                 *)
C18_BoundedChunkSize ==
    \A i \in DOMAIN SegmenterChunks :
       LET chunk == SegmenterChunks[i]
       IN CountTokens(chunk) <= ChunkSize \/ Len(chunk) = 1

RECURSIVE Covered(_, _, _, _, _)
\* the chunks from the i-th on lie in text one after the other, none
\* starting before start, the place of the chunk before it, and they leave
\* nothing but whitespace out of text after its first pos characters
Covered(text, chunks, i, start, pos) ==
    IF i > Len(chunks)
    THEN \A j \in (pos + 1)..Len(text) : text[j] \in Whitespace
    ELSE LET chunk == chunks[i]
             n == Len(chunk)
         IN \E s \in start..(Len(text) - n + 1) :
               /\ SubSeq(text, s, s + n - 1) = chunk
               /\ \A j \in (pos + 1)..(s - 1) : text[j] \in Whitespace
               /\ Covered(text, chunks, i + 1, s,
                          IF s + n - 1 > pos THEN s + n - 1 ELSE pos)

(* C19: chunk coverage.  The chunks split_text returns are pieces of the   *)
(* text in the order of the text, each starting no later than where the    *)
(* one before it ended (so that only their overlaps repeat), and together  *)
(* they hold every character of the text that is not whitespace: no part   *)
(* of the text is absent from every chunk.  The whitespace between two     *)
(* chunks and around the text is stripped.                                 *)
C19_ChunksCoverText ==
    ret.op = "split_text" => Covered(ret.call.text, ret.value, 1, 1, 0)

\* reached: a text of twelve words, one a line, was split into two chunks
\* that overlap: the last word of the first is in the second
C19_Witness ==
    /\ ret.op = "split_text"
    /\ ret.call.text = Joined(12, <<LF>>)
    /\ Len(ret.value) = 2
    /\ \E k \in DOMAIN ret.value[2] : ret.value[2][k] = ret.value[1][Len(ret.value[1])]

(* C20: collection ownership.  In every reachable state, every chunk       *)
(* stored in the collection that serves a user carries that user's id as   *)
(* user_id in its metadata.                                                *)
(* Refuted: the collection that serves "a_b" is the one that serves "a-b"  *)
(* and holds the chunks of "a-b".                                          *)
C20_CollectionOwnership ==
    \A u \in UserIds :
       CollectionName(u) \in DOMAIN collections
          => \A id \in DOMAIN Items(collections, u) :
                Items(collections, u)[id].metadata["user_id"] = u

----------------------------------------------------------------------------
(* C21: ordering inside one ingest.  A step that writes records to the     *)
(* index is the step in which one add_document call ends: the call had     *)
(* segmented its text and was waiting for the embeddings of all its        *)
(* chunks, it returns the number of its chunks, and every record written   *)
(* is one of its chunks with the embedding of that chunk.  The call writes *)
(* in no other step, so it writes at most once.                            *)
C21_SegmentEmbedIndex ==
    [][(collections' # collections
        /\ AllChunks(collections') \ AllChunks(collections) # {})
       => \E task \in IngestTasks :
             /\ Ends(task, "returned")
             /\ task.chunks = SplitText(task.call.text)
             /\ ret'.value = Len(task.chunks)
             /\ \A rec \in AllChunks(collections') \ AllChunks(collections) :
                   \E i \in 1..Len(task.chunks) :
                      /\ rec[1] = task.collection
                      /\ rec[2] = ChunkId(task.call.document_id, i - 1)
                      /\ rec[3].document = task.chunks[i]
                      /\ rec[3].embedding = Embed(task.chunks[i])]_vars

\* reached: UserC's ingest of TextLong as d1 into the empty store wrote its
\* two chunks, in the step in which it returned 2
C21_Witness ==
    /\ ret.op = "add_document"
    /\ ret.status = "returned"
    /\ ret.value = 2
    /\ ret.call.user_id = UserC
    /\ ret.call.document_id = "d1"
    /\ calls = 1
    /\ ChunksOf(collections, UserC, "d1") = {ChunkId("d1", 0), ChunkId("d1", 1)}
    /\ DOMAIN Items(collections, UserC) = {ChunkId("d1", 0), ChunkId("d1", 1)}
    /\ Items(collections, UserC)[ChunkId("d1", 0)].metadata["filename"] = "f.txt"

----------------------------------------------------------------------------
\* the records of the store that were ingested under user_id
ChunksTagged(colls, user_id) ==
    {rec \in AllChunks(colls) : rec[3].metadata["user_id"] = user_id}

(* C22: cross-user independence.  In every interleaving of the calls of    *)
(* the users, a step that changes the chunks stored for a user is a step   *)
(* of a call of that user: no call of one user changes the chunks of       *)
(* another.                                                                *)
(* Refuted: a delete_document or reset_collection of "a_b" removes the     *)
(* chunks of "a-b", which live in the same collection (C2).                *)
C22_CallsChangeOwnChunksOnly ==
    [][collections' # collections
       => \A v \in UserIds :
             ChunksTagged(collections', v) # ChunksTagged(collections, v)
                => ret'.call.user_id = v]_vars

----------------------------------------------------------------------------
\* the add_document call of UserC for document d1 with the text
IngestCall(text) ==
    [op |-> "add_document", user_id |-> UserC, document_id |-> "d1",
     text |-> text, metadata |-> CHOOSE m \in Metadatas : TRUE]

\* that call is waiting for its embeddings
InFlight(text) == \E task \in IngestTasks : task.call = IngestCall(text)

(* C23: last write wins.  When two add_document calls for the same user    *)
(* and document with different texts are in flight together, and the one   *)
(* whose index write came last has returned with no call left, the record  *)
(* at the first position, which both wrote, holds the first chunk of that  *)
(* call.                                                                   *)
(* Refuted: collection.add ignores ids that are stored (C4), so the call   *)
(* that writes first wins.                                                 *)
C23_LastWriteWins ==
    \A first, last \in {TextShort, TextLong} :
       first # last =>
          []((InFlight(first) /\ InFlight(last))
             => []((tasks = EmptyBag
                    /\ ret = Returned(IngestCall(last), Len(SplitText(last))))
                   => Items(collections, UserC)[ChunkId("d1", 0)].document
                         = SplitText(last)[1]))

----------------------------------------------------------------------------
(* C24: no dip to empty during re-ingestion.  No step of an add_document   *)
(* call, from its start to its end, removes a chunk that is stored for its *)
(* document; so while a document that has chunks is ingested again, a      *)
(* get_document_count of the user that the store answers counts at least   *)
(* one document, and a query for the chunks of the document that returns   *)
(* has at least one result.                                                *)
C24_NoDipToEmpty ==
    [][/\ \A task \in {t \in BagToSet(tasks) \cup BagToSet(tasks') :
                          t.op = "add_document"} :
             (Suspends(task) \/ (BagIn(task, tasks) /\ tasks' = Resume(task)))
             => ChunksOf(collections, task.call.user_id, task.call.document_id)
                   \subseteq ChunksOf(collections', task.call.user_id,
                                      task.call.document_id)
       /\ \A task \in IngestTasks :
             LET u == task.call.user_id
                 d == task.call.document_id
             IN (BagIn(task, tasks') /\ ChunksOf(collections, u, d) # {})
                => /\ GetDocumentCount(u, TRUE) => ret'.value >= 1
                   /\ \A q \in QueryTasks :
                         (/\ Ends(q, "returned")
                          /\ q.call.user_id = u
                          /\ q.call.filter_metadata = [document_id |-> d])
                         => Len(ret'.value) >= 1]_vars

\* reached: while UserC's d1, stored by an earlier run, was being ingested
\* again with another text, a query of UserC for the chunks of d1 returned one
C24_Witness ==
    /\ InFlight(TextShort)
    /\ ret.op = "query"
    /\ ret.status = "returned"
    /\ ret.call.user_id = UserC
    /\ ret.call.filter_metadata = [document_id |-> "d1"]
    /\ Len(ret.value) >= 1
    /\ ChunksOf(collections, UserC, "d1") = {ChunkId("d1", 0), ChunkId("d1", 1)}

----------------------------------------------------------------------------
(* C25: delete removes only the target document.  After a                  *)
(* delete_document(user_id, document_id) that the store carries out, the   *)
(* records of the collection that serves the user are those it held before *)
(* whose document_id is another one, each unchanged; every other           *)
(* collection is as it was.                                                *)
C25_DeleteRemovesOnlyTarget ==
    [][\A u \in UserIds, d \in DocIds :
          DeleteDocument(u, d, TRUE)
          => LET before == GetOrCreateCollection(collections, u)
                 kept == {id \in DOMAIN Items(before, u) :
                             Items(before, u)[id].metadata["document_id"] # d}
             IN /\ DOMAIN Items(collections', u) = kept
                /\ \A id \in kept : Items(collections', u)[id] = Items(before, u)[id]
                /\ \A n \in DOMAIN collections \ {CollectionName(u)} :
                      n \in DOMAIN collections' /\ collections'[n] = collections[n]]_vars

\* reached: of UserC's d1 (two chunks) and d2 (one chunk) of an earlier run,
\* d1 was deleted and the chunk of d2 is stored as before
C25_Witness ==
    /\ calls = 1
    /\ ret = Returned([op |-> "delete_document", user_id |-> UserC,
                       document_id |-> "d1"], TRUE)
    /\ collections = Indexed(EmptyStore, UserC, "d2", TextShort, PersistedMetadata)

----------------------------------------------------------------------------
(* C26: no orphan chunks after deletion through the API.  When the delete  *)
(* endpoint has answered 200 for a document and no task is running, the    *)
(* collection that serves the user holds no chunk of that document.        *)
(* Refuted: the endpoint deletes the chunks that are stored when it runs;  *)
(* the background task of the document, waiting for its embeddings, adds   *)
(* its chunks afterwards.  And a failure of the deletion in the vector     *)
(* store is only logged.                                                   *)
C26_NoOrphanChunks ==
    (/\ ret.op = DeleteEndpoint
     /\ ret.status = "returned"
     /\ tasks = EmptyBag)
    => ChunksOf(collections, ret.call.user_id, ret.call.document_id) = {}

----------------------------------------------------------------------------
\* the moves of the status of a document
StatusMoves ==
    {<<"uploading", "processing">>, <<"processing", "indexed">>,
     <<"uploading", "error">>, <<"processing", "error">>}

C28_CompletedHasThreeTurns ==
    \A id \in DOMAIN sessions :
       sessions[id].status = "completed"
          => Len(sessions[id].transcript) >= MinMessages

\* the requests of send_message that wait for the response of the model
SendTasks == {task \in BagToSet(tasks) : task.op = "send_message"}

(* C29: no lost messages.  A send_message that succeeds appends exactly    *)
(* its user message followed by the AI message to the stored transcript;   *)
(* a send_message on a session that is not in_progress is rejected and     *)
(* leaves the transcript unchanged.                                        *)
C29_SendAppendsItsTwoMessages ==
    [][/\ \A task \in SendTasks :
             Ends(task, "returned")
                => LET id == task.call.session_id
                   IN sessions'[id].transcript =
                         sessions[id].transcript
                            \o <<ChatMessage("user", task.call.message),
                                 ChatMessage("ai", ret'.value.ai_response)>>
       /\ \A u \in SessionUsers, id \in SessionIds, m \in RequestMessages :
             (SendMessageStart(u, id, m) /\ sessions[id].status # "in_progress")
                => /\ ret'.status = "raised"
                   /\ sessions' = sessions]_vars

\* the request of UserC to complete a session
CompleteCall(session_id) ==
    [op |-> "complete_session", user_id |-> UserC, session_id |-> session_id]

\* that request has gone past the activation of the user: all that is left
\* of it is to read the session and return it
PastActivation(session_id) ==
    \E task \in BagToSet(tasks) :
       /\ task.call = CompleteCall(session_id)
       /\ task.pc = "find_one"

(* C30: activation on first completion.  When the first two sessions of a  *)
(* new user are completed by concurrent requests, the user's               *)
(* activation_state is activated once both requests have set the status    *)
(* and gone past the activation, with nothing left but to return the       *)
(* session.                                                                *)
C30_ActivatedByConcurrentCompletions ==
    (\A id \in SessionIds :
        PastActivation(id) /\ sessions[id].status = "completed")
       => users[UserC].activation_state = "activated"

====
